---- MODULE Spec2Model ----
(***************************************************************************)
(* A model of brainfuck-rs (src/src/lib.rs): the Lexer, the recursive      *)
(* descent Parser and the tree-walking Interpreter with its two            *)
(* evaluators, interpret (prints to stdout, reads stdin) and interpret_web *)
(* (returns a String, ignores Input).                                      *)
(*                                                                         *)
(* Representation.  A char of the source is a one-character string; a &str *)
(* or String is a sequence of chars.  Option<T> is a sequence of length 0  *)
(* (None) or 1 (Some).  Vec indices are 0-based as in the source, so the   *)
(* token under the cursor is tokens[current + 1].  The tape is a function  *)
(* from 0 .. len-1 to u8 values.  Output is a sequence of Unicode code     *)
(* points (`cell as char` is the code point equal to the cell).  The       *)
(* recursion of expression() and of interpret()/interpret_loop() is kept   *)
(* as explicit stacks of frames, one step of a function body per action.   *)
(***************************************************************************)
EXTENDS Integers, Sequences, FiniteSets, TLC

VARIABLES
  source,           \* the &str handed to Lexer::new
  overflow_checks,  \* build profile: TRUE = debug (arithmetic overflow panics), FALSE = release (wraps)
  pc,               \* "lex", "parse", "parsed", "run", "done" or "panic"
  err,              \* the panic message once pc = "panic"
  tokens,           \* Parser.tokens
  current,          \* Parser.current
  pstack,           \* open calls of Parser::expression in its LoopStart branch
  ast,              \* the local `ast` of Parser::parse, later Interpreter.ast
  mode,             \* "none", then "web" (run / interpret_web) or "cli" (interpret)
  cells,            \* Interpreter.cells
  pointer,          \* Interpreter.pointer
  stack,            \* open calls of interpret / interpret_loop / interpret_web / interpret_web_loop
  stdout,           \* what print! / println! have written
  stdin_read,       \* the lines read_line has consumed from standard input so far
  result,           \* the String returned by the outermost interpret_web
  \* History variables: they record what the program did and no action of
  \* the program reads them.
  log,              \* the value of the current cell at each Output node executed, in order
  runs,             \* how many runs were started (a caller may run a source again)
  trace,            \* the (cells, pointer, chars emitted) the evaluator of this run went through
  first             \* the run before this one, if there was one, as it ended

vars == <<source, overflow_checks, pc, err, tokens, current, pstack, ast, mode,
          cells, pointer, stack, stdout, stdin_read, result, log, runs, trace, first>>

(***************************************************************************)
(* Bounds of the model                                                     *)
(***************************************************************************)
\* Longest source string explored exhaustively.
MaxLen == 3
\* Interpreter::new allocates 30_000 cells (lib.rs:235).  Every pointer
\* computation in the source is relative to cells.len(), so the model runs
\* on a tape of TapeLen cells.
TapeLen == 5
\* Most lines available on standard input.
MaxLines == 2
\* Longest source over LoopAlphabet explored exhaustively.
MaxLoopLen == 5
\* Most chars a run emits: an Output node is not executed past it (a loop
\* that prints on every turn would otherwise print without end).
MaxOut == 13
\* Most nodes a run executes where two runs are compared: a node is not
\* executed past it.
MaxTrace == 40
\* Longest part before a loop and longest body of a loop in OrderSources.
MaxPart == 2
\* Most tokens before the closing EOF token of a hand-built token sequence.
MaxTokens == 2

\* u8: the number of values of a cell.
U8 == 256

Alphabet == {">", "<", "+", "-", ".", ",", "[", "]", " ", "a"}

Sources == UNION {[1..n -> Alphabet] : n \in 0..MaxLen}

\* sources built of loops, cell increments and Output alone
LoopAlphabet == {"+", ".", "[", "]"}

LoopSources == UNION {[1..n -> LoopAlphabet] : n \in 0..MaxLoopLen}

\* sources with output before a loop, in it and after it: some chars of
\* `+` and `.`, a loop whose body may hold a loop, and some `.`
OrderSources ==
  LET pre  == UNION {[1..n -> {"+", "."}] : n \in 0..MaxPart}
      body == UNION {[1..n -> {"-", ".", "[", "]"}] : n \in 0..MaxPart}
      post == UNION {[1..n -> {"."}] : n \in 0..(MaxPart - 1)}
  IN {a \o <<"[">> \o b \o <<"]">> \o c : a \in pre, b \in body, c \in post}

\* sources run twice: OrderSources, and every source up to MaxLen of the
\* instructions and an opening bracket
TwiceAlphabet == {">", "<", "+", "-", ".", ",", "["}

TwiceSources == OrderSources \cup UNION {[1..n -> TwiceAlphabet] : n \in 0..MaxLen}

HelloWorld ==
  <<
     "+", "+", "+", "+", "+", "+", "+", "+", "+", "+", "[", ">",
     "+", "+", "+", "+", "+", "+", "+", ">", "+", "+", "+", "+",
     "+", "+", "+", "+", "+", "+", ">", "+", "+", "+", ">", "+",
     "<", "<", "<", "<", "-", "]", ">", "+", "+", ".", ">", "+",
     ".", "+", "+", "+", "+", "+", "+", "+", ".", ".", "+", "+",
     "+", ".", ">", "+", "+", ".", "<", "<", "+", "+", "+", "+",
     "+", "+", "+", "+", "+", "+", "+", "+", "+", "+", "+", ".",
     ">", ".", "+", "+", "+", ".", "-", "-", "-", "-", "-", "-",
     ".", "-", "-", "-", "-", "-", "-", "-", "-", ".", ">", "+",
     ".", ">", "."
  >>

None == <<>>
Some(x) == <<x>>
Unwrap(o) == o[1]

\* '\0'
NUL == "\\0"

(***************************************************************************)
(* Lexer                                                                   *)
(***************************************************************************)
\* str::split(""): the empty pattern matches at every char boundary, so the
\* pieces are "", each char as a one-char &str, and "".
SplitEmpty(input) ==
  <<None>> \o [i \in 1..Len(input) |-> <<input[i]>>] \o <<None>>

\* Mutant of EatFirstEmptyspace: the leading "" of split("") is kept.
EatNothing(input) == SplitEmpty(input)

\* enumerate().filter(|(i, c)| !(*i == 0 && c.is_empty())).map(|(_, c)| c)
EatFirstEmptyspace(input) ==
  LET pieces == SplitEmpty(input)
      keep   == {i \in 1..Len(pieces) : ~((i - 1) = 0 /\ pieces[i] = <<>>)}
      \* the k-th index kept, in order
      Kept(k) == CHOOSE i \in keep : Cardinality({j \in keep : j < i}) = k - 1
  IN [k \in 1..Cardinality(keep) |-> pieces[Kept(k)]]

\* Mutant of TokenKind: the " " arm is missing, a space falls to `_`.
TokenKindNoWhiteSpace(c) ==
  CASE c = <<">">> -> "IncrementPointer"
    [] c = <<"<">> -> "DecrementPointer"
    [] c = <<"+">> -> "IncrementValue"
    [] c = <<"-">> -> "DecrementValue"
    [] c = <<".">> -> "Output"
    [] c = <<",">> -> "Input"
    [] c = <<"[">> -> "LoopStart"
    [] c = <<"]">> -> "LoopEnd"
    [] c = <<>>    -> "EOF"
    [] OTHER       -> "Ignore"

TokenKind(c) ==
  CASE c = <<">">> -> "IncrementPointer"
    [] c = <<"<">> -> "DecrementPointer"
    [] c = <<"+">> -> "IncrementValue"
    [] c = <<"-">> -> "DecrementValue"
    [] c = <<".">> -> "Output"
    [] c = <<",">> -> "Input"
    [] c = <<"[">> -> "LoopStart"
    [] c = <<"]">> -> "LoopEnd"
    [] c = <<>>    -> "EOF"
    [] c = <<" ">> -> "WhiteSpace"
    [] OTHER       -> "Ignore"

\* Mutant of MakeToken: the position is the index enumerate() supplies.
MakeTokenZeroBased(i, c) ==
  LET kind == TokenKind(c) IN
  IF kind = "EOF"
  THEN [pos |-> i, kind |-> kind, lexeme |-> NUL]
  ELSE [pos |-> i, kind |-> kind, lexeme |-> Head(c)]

\* i is the 0-based index enumerate() supplies
MakeToken(i, c) ==
  LET kind == TokenKind(c) IN
  IF kind = "EOF"
  THEN [pos |-> i + 1, kind |-> kind, lexeme |-> NUL]
  ELSE [pos |-> i + 1, kind |-> kind, lexeme |-> Head(c)]

Tokenize(input) ==
  LET pieces == EatFirstEmptyspace(input)
  IN [k \in 1..Len(pieces) |-> MakeToken(k - 1, pieces[k])]

(***************************************************************************)
(* Parser                                                                  *)
(***************************************************************************)
Panic(msg) ==
  /\ pc' = "panic"
  /\ err' = msg

\* self.tokens[self.current]
Peek == tokens[current + 1]

\* an index past the end of self.tokens panics
PeekInRange == current < Len(tokens)

IsAtEnd == Peek.kind = "EOF"

\* Mutant of Advance: the cursor moves without the is_at_end() test.
AdvanceUnguarded == current + 1

\* the cursor after advance(): if !self.is_at_end() { self.current += 1; }
Advance == IF ~IsAtEnd THEN current + 1 ELSE current

\* self.tokens[self.current - 1], with the cursor at c
Previous(c) == tokens[c]

\* Mutant of NodeKind: the Ignore arm is missing, an Ignore token falls to `_`.
NodeKindNoIgnore(kind) ==
  CASE kind = "IncrementValue"   -> Some("CellIncrement")
    [] kind = "DecrementValue"   -> Some("CellDecrement")
    [] kind = "IncrementPointer" -> Some("PointerIncrement")
    [] kind = "DecrementPointer" -> Some("PointerDecrement")
    [] kind = "Output"           -> Some("Output")
    [] kind = "Input"            -> Some("Input")
    [] kind = "LoopStart"        -> Some("LoopStart")
    [] kind = "LoopEnd"          -> Some("LoopEnd")
    [] kind = "WhiteSpace"       -> Some("WhiteSpace")
    [] OTHER                     -> None

\* the match of expression(): the node kind for a token kind, None for the
\* `_` arm (which panics)
NodeKind(kind) ==
  CASE kind = "IncrementValue"   -> Some("CellIncrement")
    [] kind = "DecrementValue"   -> Some("CellDecrement")
    [] kind = "IncrementPointer" -> Some("PointerIncrement")
    [] kind = "DecrementPointer" -> Some("PointerDecrement")
    [] kind = "Output"           -> Some("Output")
    [] kind = "Input"            -> Some("Input")
    [] kind = "LoopStart"        -> Some("LoopStart")
    [] kind = "LoopEnd"          -> Some("LoopEnd")
    [] kind = "WhiteSpace"       -> Some("WhiteSpace")
    [] kind = "Ignore"           -> Some("Ignore")
    [] OTHER                     -> None

\* Mutant of Leaf: the node carries a token with its position set to 0.
LeafPosZero(token, kind) ==
  [token |-> [token EXCEPT !.pos = 0], kind |-> kind, body |-> None]

\* a body-less Node
Leaf(token, kind) == [token |-> token, kind |-> kind, body |-> None]

\* Mutant of LoopNode: the LoopStart node is returned without its body.
LoopNodeNoBody(token, a) == [token |-> token, kind |-> "LoopStart", body |-> None]

\* the Node the LoopStart branch returns
LoopNode(token, a) == [token |-> token, kind |-> "LoopStart", body |-> Some(a)]

\* Mutant of PushNode: the node goes to the ast of parse() whatever loop is open.
PushNodeOuter(node) ==
  /\ ast' = [ast EXCEPT !.body = Append(@, node)]
  /\ pstack' = pstack

\* ast.body.push(node) in the innermost open call: the LoopStart branch of
\* the innermost expression(), or parse() when none is open
PushNode(node) ==
  IF pstack = <<>>
  THEN /\ ast' = [ast EXCEPT !.body = Append(@, node)]
       /\ pstack' = pstack
  ELSE /\ pstack' = [pstack EXCEPT ![Len(pstack)].ast.body = Append(@, node)]
       /\ ast' = ast

\* One call of expression() up to its return, or up to the while loop of
\* its LoopStart branch.
Expression ==
  LET c == Advance IN
  IF c = 0
  THEN /\ Panic("previous: index out of bounds")
       /\ UNCHANGED <<current, pstack, ast>>
  ELSE LET token == Previous(c)
           kind  == NodeKind(token.kind)
       IN /\ current' = c
          /\ IF kind = None
             THEN /\ Panic("Unexpected token")
                  /\ UNCHANGED <<pstack, ast>>
             ELSE IF token.kind = "LoopStart"
             THEN /\ pstack' = Append(pstack, [token |-> token, ast |-> [body |-> <<>>]])
                  /\ UNCHANGED <<ast, pc, err>>
             ELSE /\ PushNode(Leaf(token, Unwrap(kind)))
                  /\ UNCHANGED <<pc, err>>

\* run, lines 350-352: Lexer::new(code).tokenize() and Parser::new(tokens)
Lex ==
  /\ pc = "lex"
  /\ tokens' = Tokenize(source)
  /\ current' = 0
  /\ pc' = "parse"
  /\ UNCHANGED <<source, overflow_checks, err, pstack, ast, mode, cells, pointer,
                 stack, stdout, stdin_read, result>>

\* parse(): one turn of `while !self.is_at_end()`, or the return of ast
Parse ==
  /\ pc = "parse"
  /\ pstack = <<>>
  /\ IF ~PeekInRange
     THEN /\ Panic("peek: index out of bounds")
          /\ UNCHANGED <<current, pstack, ast>>
     ELSE IF IsAtEnd
     THEN /\ pc' = "parsed"
          /\ UNCHANGED <<err, current, pstack, ast>>
     ELSE Expression
  /\ UNCHANGED <<source, overflow_checks, tokens, mode, cells, pointer, stack,
                 stdout, stdin_read, result>>

\* the LoopStart branch of expression(): one turn of its while loop, or
\* the closing advance() and the return of the LoopStart node
ExpressionLoop ==
  /\ pc = "parse"
  /\ pstack /= <<>>
  /\ IF ~PeekInRange
     THEN /\ Panic("peek: index out of bounds")
          /\ UNCHANGED <<current, pstack, ast>>
     ELSE IF ~IsAtEnd /\ Peek.kind /= "LoopEnd"
     THEN Expression
     ELSE LET c     == Advance
              frame == pstack[Len(pstack)]
              outer == SubSeq(pstack, 1, Len(pstack) - 1)
              node  == LoopNode(frame.token, frame.ast)
          IN IF c = 0
             THEN /\ Panic("previous: index out of bounds")
                  /\ UNCHANGED <<current, pstack, ast>>
             ELSE /\ current' = c
                  /\ IF outer = <<>>
                     THEN /\ ast' = [ast EXCEPT !.body = Append(@, node)]
                          /\ pstack' = outer
                     ELSE /\ pstack' = [outer EXCEPT ![Len(outer)].ast.body = Append(@, node)]
                          /\ ast' = ast
                  /\ UNCHANGED <<pc, err>>
  /\ UNCHANGED <<source, overflow_checks, tokens, mode, cells, pointer, stack,
                 stdout, stdin_read, result>>

(***************************************************************************)
(* Interpreter                                                             *)
(***************************************************************************)
\* vec![0; 30_000], on the model's tape length
NewCells == [i \in 0..(TapeLen - 1) |-> 0]

\* self.cells.len()
CellsLen(cs) == Cardinality(DOMAIN cs)

\* the lines standard input may hold: "\n", "ab\n", and a line whose first
\* char is U+0141, outside u8
Lines == {<<10>>, <<97, 98, 10>>, <<321, 10>>}

\* `c as u8` of a char: the low eight bits of its code point
CharAsU8(c) == c % U8

\* A frame of an open call.  fn is the function, nodes its Option<&Vec<Node>>
\* argument (Some(nodes) for the two loop functions, whose argument is a
\* &Vec<Node>), i the position of `for node in body.iter()` (for a call
\* with None: 0 before the recursive call, 1 after it), out the local `out`.
Frame(fn, nodes, i) == [fn |-> fn, nodes |-> nodes, i |-> i, out |-> <<>>]

Top == stack[Len(stack)]

Callers == SubSeq(stack, 1, Len(stack) - 1)

LoopFns == {"interpret_loop", "interpret_web_loop"}

\* Mutant of Resume: what the call returned goes before what the caller holds.
ResumePrepend(caller, ret) ==
  [caller EXCEPT !.out = ret \o @,
                 !.i = IF caller.fn \in LoopFns THEN @ ELSE @ + 1]

\* the caller after the call it made returned ret: out.push_str(ret), and
\* the for loop (or the None arm) moves on; a while loop tests again
Resume(caller, ret) ==
  [caller EXCEPT !.out = @ \o ret,
                 !.i = IF caller.fn \in LoopFns THEN @ ELSE @ + 1]

\* the stack after the call on top returned ret
Returned(ret) ==
  [Callers EXCEPT ![Len(Callers)] = Resume(Callers[Len(Callers)], ret)]

\* Mutant of Stepped: the for loop moves on and the char is not pushed.
SteppedNoPush(emit) ==
  [stack EXCEPT ![Len(stack)] = [Top EXCEPT !.i = @ + 1]]

\* the for loop of the call on top moves to its next node, having pushed
\* emit on its out
Stepped(emit) ==
  [stack EXCEPT ![Len(stack)] = [Top EXCEPT !.i = @ + 1, !.out = @ \o emit]]

\* the number of chars held by the out strings of the open calls
RECURSIVE OutLen(_)
OutLen(frames) ==
  IF frames = <<>> THEN 0 ELSE Len(Head(frames).out) + OutLen(Tail(frames))

\* the call on top of the stack is in its for loop and the node it executes
\* next has this kind
AtNode(kind) ==
  /\ pc = "run"
  /\ stack /= <<>>
  /\ Top.fn \in {"interpret", "interpret_web"}
  /\ Top.nodes /= None
  /\ Top.i <= Len(Unwrap(Top.nodes))
  /\ Unwrap(Top.nodes)[Top.i].kind = kind

AtOutput == AtNode("Output")

\* self.cells[self.pointer] += 1 where the build wraps
WrappingInc(v) == (v + 1) % U8

\* self.cells[self.pointer] -= 1 where the build wraps
WrappingDec(v) == (v + U8 - 1) % U8

\* ---- interpret_web ----
\* Mutant of WebPointerIncrement: the reset to 0 is missing.
WebPointerIncrementNoWrap(p, len) == p + 1

\* self.pointer += 1; if self.pointer >= self.cells.len() { self.pointer = 0; }
WebPointerIncrement(p, len) == IF p + 1 >= len THEN 0 ELSE p + 1

\* if self.pointer == 0 { self.pointer = self.cells.len() - 1 } else { self.pointer -= 1 }
WebPointerDecrement(p, len) == IF p = 0 THEN len - 1 ELSE p - 1

\* Mutant of WebOutput: the cell is pushed as it is, 0 included.
WebOutputRaw(v) == v

\* the char pushed on out for a cell holding v
WebOutput(v) == IF v /= 0 THEN v ELSE 10

\* while self.cells[self.pointer] != 0
WebLoopCondition(cs, p) == cs[p] /= 0

\* Mutant of WebNode: the Input arm stores 0 in the current cell, as at an
\* end of input.
WebNodeInputStores(kind, cs, p, checks) ==
  LET same == [cells |-> cs, pointer |-> p, emit |-> <<>>, panic |-> None] IN
  CASE kind \in {"Ignore", "WhiteSpace", "LoopEnd"} -> same
    [] kind = "CellIncrement" ->
         IF p \notin DOMAIN cs THEN [same EXCEPT !.panic = Some("index out of bounds")]
         ELSE IF checks /\ cs[p] + 1 >= U8
         THEN [same EXCEPT !.panic = Some("attempt to add with overflow")]
         ELSE [same EXCEPT !.cells = [cs EXCEPT ![p] = WrappingInc(@)]]
    [] kind = "CellDecrement" ->
         IF p \notin DOMAIN cs THEN [same EXCEPT !.panic = Some("index out of bounds")]
         ELSE IF checks /\ cs[p] - 1 < 0
         THEN [same EXCEPT !.panic = Some("attempt to subtract with overflow")]
         ELSE [same EXCEPT !.cells = [cs EXCEPT ![p] = WrappingDec(@)]]
    [] kind = "PointerIncrement" ->
         [same EXCEPT !.pointer = WebPointerIncrement(p, CellsLen(cs))]
    [] kind = "PointerDecrement" ->
         [same EXCEPT !.pointer = WebPointerDecrement(p, CellsLen(cs))]
    [] kind = "Output" ->
         IF p \notin DOMAIN cs THEN [same EXCEPT !.panic = Some("index out of bounds")]
         ELSE [same EXCEPT !.emit = <<WebOutput(cs[p])>>]
    [] kind = "Input" -> [same EXCEPT !.cells = [cs EXCEPT ![p] = 0]]

\* The effect of one node of the match in interpret_web that is not a
\* LoopStart: the cells, the pointer, the chars pushed on out, and the
\* panic message if it panics.
WebNode(kind, cs, p, checks) ==
  LET same == [cells |-> cs, pointer |-> p, emit |-> <<>>, panic |-> None] IN
  CASE kind \in {"Ignore", "WhiteSpace", "LoopEnd"} -> same
    [] kind = "CellIncrement" ->
         IF p \notin DOMAIN cs THEN [same EXCEPT !.panic = Some("index out of bounds")]
         ELSE IF checks /\ cs[p] + 1 >= U8
         THEN [same EXCEPT !.panic = Some("attempt to add with overflow")]
         ELSE [same EXCEPT !.cells = [cs EXCEPT ![p] = WrappingInc(@)]]
    [] kind = "CellDecrement" ->
         IF p \notin DOMAIN cs THEN [same EXCEPT !.panic = Some("index out of bounds")]
         ELSE IF checks /\ cs[p] - 1 < 0
         THEN [same EXCEPT !.panic = Some("attempt to subtract with overflow")]
         ELSE [same EXCEPT !.cells = [cs EXCEPT ![p] = WrappingDec(@)]]
    [] kind = "PointerIncrement" ->
         [same EXCEPT !.pointer = WebPointerIncrement(p, CellsLen(cs))]
    [] kind = "PointerDecrement" ->
         [same EXCEPT !.pointer = WebPointerDecrement(p, CellsLen(cs))]
    [] kind = "Output" ->
         IF p \notin DOMAIN cs THEN [same EXCEPT !.panic = Some("index out of bounds")]
         ELSE [same EXCEPT !.emit = <<WebOutput(cs[p])>>]
    [] kind = "Input" -> same

\* Mutant of RunWeb: no Interpreter is built, the tape and the pointer are
\* what the memory holds.
RunWebStale ==
  /\ pc = "parsed"
  /\ pc' = "run"
  /\ mode' = "web"
  /\ cells' = cells
  /\ pointer' = pointer
  /\ stack' = <<Frame("interpret_web", None, 0)>>
  /\ UNCHANGED <<source, overflow_checks, err, tokens, current, pstack, ast,
                 stdout, stdin_read, result>>

\* run, lines 353-355: the tree of parse() goes to Interpreter::new and
\* interpret_web(None) is called
RunWeb ==
  /\ pc = "parsed"
  /\ pc' = "run"
  /\ mode' = "web"
  /\ cells' = NewCells
  /\ pointer' = 0
  /\ stack' = <<Frame("interpret_web", None, 0)>>
  /\ UNCHANGED <<source, overflow_checks, err, tokens, current, pstack, ast,
                 stdout, stdin_read, result>>

\* interpret_web: one step of the call on top of the stack
InterpretWeb ==
  /\ pc = "run"
  /\ stack /= <<>>
  /\ Top.fn = "interpret_web"
  /\ AtOutput => OutLen(stack) < MaxOut
  /\ IF Top.nodes = None
     THEN \* the None arm
          IF Top.i = 0
          THEN /\ stack' = Append(stack, Frame("interpret_web", Some(ast.body), 1))
               /\ UNCHANGED <<pc, err, cells, pointer, result>>
          ELSE IF Callers = <<>>
          THEN /\ result' = Top.out
               /\ stack' = <<>>
               /\ pc' = "done"
               /\ UNCHANGED <<err, cells, pointer>>
          ELSE /\ stack' = Returned(Top.out)
               /\ UNCHANGED <<pc, err, cells, pointer, result>>
     ELSE LET body == Unwrap(Top.nodes) IN
          IF Top.i > Len(body)
          THEN \* the for loop is over: return out
               /\ stack' = Returned(Top.out)
               /\ UNCHANGED <<pc, err, cells, pointer, result>>
          ELSE LET node == body[Top.i] IN
               IF node.kind = "LoopStart"
               THEN IF node.body = None
                    THEN /\ Panic("called Option::unwrap() on a None value")
                         /\ UNCHANGED <<cells, pointer, stack, result>>
                    ELSE /\ stack' = Append(stack, Frame("interpret_web_loop",
                                                         Some(Unwrap(node.body).body), 0))
                         /\ UNCHANGED <<pc, err, cells, pointer, result>>
               ELSE LET r == WebNode(node.kind, cells, pointer, overflow_checks) IN
                    IF r.panic /= None
                    THEN /\ Panic(Unwrap(r.panic))
                         /\ UNCHANGED <<cells, pointer, stack, result>>
                    ELSE /\ cells' = r.cells
                         /\ pointer' = r.pointer
                         /\ stack' = Stepped(r.emit)
                         /\ UNCHANGED <<pc, err, result>>
  /\ UNCHANGED <<source, overflow_checks, tokens, current, pstack, ast, mode,
                 stdout, stdin_read>>

\* interpret_web_loop: the test of its while loop, then a call of
\* interpret_web(Some(nodes)) or the return of out
InterpretWebLoop ==
  /\ pc = "run"
  /\ stack /= <<>>
  /\ Top.fn = "interpret_web_loop"
  /\ IF pointer \notin DOMAIN cells
     THEN /\ Panic("index out of bounds")
          /\ UNCHANGED stack
     ELSE IF WebLoopCondition(cells, pointer)
     THEN /\ stack' = Append(stack, Frame("interpret_web", Top.nodes, 1))
          /\ UNCHANGED <<pc, err>>
     ELSE /\ stack' = Returned(Top.out)
          /\ UNCHANGED <<pc, err>>
  /\ UNCHANGED <<source, overflow_checks, tokens, current, pstack, ast, mode,
                 cells, pointer, stdout, stdin_read, result>>

\* ---- interpret ----
\* self.pointer += 1; if self.pointer >= self.cells.len() { self.pointer = 0; }
PointerIncrement(p, len) == IF p + 1 >= len THEN 0 ELSE p + 1

\* Mutant of PointerDecrement: the test for 0 is missing.
PointerDecrementUnguarded(p, len) == p - 1

\* if self.pointer == 0 { self.pointer = self.cells.len() - 1 } else { self.pointer -= 1 }
PointerDecrement(p, len) == IF p = 0 THEN len - 1 ELSE p - 1

\* Mutant of Output: the cell is printed as it is, 0 included.
OutputRaw(v) == v

\* what the Output arm writes for a cell holding v: the char, or the
\* newline of println!("")
Output(v) == IF v /= 0 THEN v ELSE 10

\* Mutant of LoopCondition: the loop tests the first cell, not the current one.
LoopConditionFirstCell(cs, p) == cs[0] /= 0

\* while self.cells[self.pointer] != 0
LoopCondition(cs, p) == cs[p] /= 0

\* Mutant of Node: a LoopEnd node moves the pointer.
NodeLoopEndMoves(kind, cs, p, checks) ==
  LET same == [cells |-> cs, pointer |-> p, emit |-> <<>>, panic |-> None] IN
  CASE kind \in {"Ignore", "WhiteSpace"} -> same
    [] kind = "LoopEnd" ->
         [same EXCEPT !.pointer = PointerIncrement(p, CellsLen(cs))]
    [] kind = "CellIncrement" ->
         IF p \notin DOMAIN cs THEN [same EXCEPT !.panic = Some("index out of bounds")]
         ELSE IF checks /\ cs[p] + 1 >= U8
         THEN [same EXCEPT !.panic = Some("attempt to add with overflow")]
         ELSE [same EXCEPT !.cells = [cs EXCEPT ![p] = WrappingInc(@)]]
    [] kind = "CellDecrement" ->
         IF p \notin DOMAIN cs THEN [same EXCEPT !.panic = Some("index out of bounds")]
         ELSE IF checks /\ cs[p] - 1 < 0
         THEN [same EXCEPT !.panic = Some("attempt to subtract with overflow")]
         ELSE [same EXCEPT !.cells = [cs EXCEPT ![p] = WrappingDec(@)]]
    [] kind = "PointerIncrement" ->
         [same EXCEPT !.pointer = PointerIncrement(p, CellsLen(cs))]
    [] kind = "PointerDecrement" ->
         [same EXCEPT !.pointer = PointerDecrement(p, CellsLen(cs))]
    [] kind = "Output" ->
         IF p \notin DOMAIN cs THEN [same EXCEPT !.panic = Some("index out of bounds")]
         ELSE [same EXCEPT !.emit = <<Output(cs[p])>>]

\* The effect of one node of the match in interpret that is neither a
\* LoopStart nor an Input.
Node(kind, cs, p, checks) ==
  LET same == [cells |-> cs, pointer |-> p, emit |-> <<>>, panic |-> None] IN
  CASE kind \in {"Ignore", "WhiteSpace", "LoopEnd"} -> same
    [] kind = "CellIncrement" ->
         IF p \notin DOMAIN cs THEN [same EXCEPT !.panic = Some("index out of bounds")]
         ELSE IF checks /\ cs[p] + 1 >= U8
         THEN [same EXCEPT !.panic = Some("attempt to add with overflow")]
         ELSE [same EXCEPT !.cells = [cs EXCEPT ![p] = WrappingInc(@)]]
    [] kind = "CellDecrement" ->
         IF p \notin DOMAIN cs THEN [same EXCEPT !.panic = Some("index out of bounds")]
         ELSE IF checks /\ cs[p] - 1 < 0
         THEN [same EXCEPT !.panic = Some("attempt to subtract with overflow")]
         ELSE [same EXCEPT !.cells = [cs EXCEPT ![p] = WrappingDec(@)]]
    [] kind = "PointerIncrement" ->
         [same EXCEPT !.pointer = PointerIncrement(p, CellsLen(cs))]
    [] kind = "PointerDecrement" ->
         [same EXCEPT !.pointer = PointerDecrement(p, CellsLen(cs))]
    [] kind = "Output" ->
         IF p \notin DOMAIN cs THEN [same EXCEPT !.panic = Some("index out of bounds")]
         ELSE [same EXCEPT !.emit = <<Output(cs[p])>>]

\* The Input arm of interpret with `line` what read_line appended to the
\* fresh String (empty at end of input): the first char of the line, as u8.
InputNode(line, cs, p) ==
  LET same == [cells |-> cs, pointer |-> p, emit |-> <<>>, panic |-> None] IN
  IF line = <<>>
  THEN [same EXCEPT !.panic = Some("called Option::unwrap() on a None value")]
  ELSE IF p \notin DOMAIN cs THEN [same EXCEPT !.panic = Some("index out of bounds")]
  ELSE [same EXCEPT !.cells = [cs EXCEPT ![p] = CharAsU8(Head(line))]]

\* tests::test_interpreter, lines 401-403: the tree of parse() goes to
\* Interpreter::new and interpret(None) is called
RunCli ==
  /\ pc = "parsed"
  /\ pc' = "run"
  /\ mode' = "cli"
  /\ cells' = NewCells
  /\ pointer' = 0
  /\ stack' = <<Frame("interpret", None, 0)>>
  /\ UNCHANGED <<source, overflow_checks, err, tokens, current, pstack, ast,
                 stdout, stdin_read, result>>

\* interpret: one step of the call on top of the stack
Interpret ==
  /\ pc = "run"
  /\ stack /= <<>>
  /\ Top.fn = "interpret"
  /\ AtOutput => Len(stdout) < MaxOut
  /\ IF Top.nodes = None
     THEN \* the None arm
          IF Top.i = 0
          THEN /\ stack' = Append(stack, Frame("interpret", Some(ast.body), 1))
               /\ UNCHANGED <<pc, err, cells, pointer, stdout, stdin_read>>
          ELSE IF Callers = <<>>
          THEN /\ stack' = <<>>
               /\ pc' = "done"
               /\ UNCHANGED <<err, cells, pointer, stdout, stdin_read>>
          ELSE /\ stack' = Returned(<<>>)
               /\ UNCHANGED <<pc, err, cells, pointer, stdout, stdin_read>>
     ELSE LET body == Unwrap(Top.nodes) IN
          IF Top.i > Len(body)
          THEN \* the for loop is over
               /\ stack' = Returned(<<>>)
               /\ UNCHANGED <<pc, err, cells, pointer, stdout, stdin_read>>
          ELSE LET node == body[Top.i] IN
               IF node.kind = "LoopStart"
               THEN IF node.body = None
                    THEN /\ Panic("called Option::unwrap() on a None value")
                         /\ UNCHANGED <<cells, pointer, stack, stdout, stdin_read>>
                    ELSE /\ stack' = Append(stack, Frame("interpret_loop",
                                                         Some(Unwrap(node.body).body), 0))
                         /\ UNCHANGED <<pc, err, cells, pointer, stdout, stdin_read>>
               ELSE \E line \in (IF node.kind = "Input"
                                 THEN (IF Len(stdin_read) < MaxLines THEN Lines ELSE {}) \cup {<<>>}
                                 ELSE {<<>>}) :
                    LET r == IF node.kind = "Input"
                             THEN InputNode(line, cells, pointer)
                             ELSE Node(node.kind, cells, pointer, overflow_checks)
                    IN /\ stdin_read' = IF line = <<>> THEN stdin_read
                                        ELSE Append(stdin_read, line)
                       /\ IF r.panic /= None
                          THEN /\ Panic(Unwrap(r.panic))
                               /\ UNCHANGED <<cells, pointer, stack, stdout>>
                          ELSE /\ cells' = r.cells
                               /\ pointer' = r.pointer
                               /\ stdout' = stdout \o r.emit
                               /\ stack' = Stepped(<<>>)
                               /\ UNCHANGED <<pc, err>>
  /\ UNCHANGED <<source, overflow_checks, tokens, current, pstack, ast, mode, result>>

\* interpret_loop: the test of its while loop, then a call of
\* interpret(Some(nodes)) or the return
InterpretLoop ==
  /\ pc = "run"
  /\ stack /= <<>>
  /\ Top.fn = "interpret_loop"
  /\ IF pointer \notin DOMAIN cells
     THEN /\ Panic("index out of bounds")
          /\ UNCHANGED stack
     ELSE IF LoopCondition(cells, pointer)
     THEN /\ stack' = Append(stack, Frame("interpret", Top.nodes, 1))
          /\ UNCHANGED <<pc, err>>
     ELSE /\ stack' = Returned(<<>>)
          /\ UNCHANGED <<pc, err>>
  /\ UNCHANGED <<source, overflow_checks, tokens, current, pstack, ast, mode,
                 cells, pointer, stdout, stdin_read, result>>

(***************************************************************************)
(* Specifications                                                          *)
(***************************************************************************)
InitWith(srcs) ==
  /\ source \in srcs
  /\ overflow_checks \in BOOLEAN
  /\ pc = "lex"
  /\ err = ""
  /\ tokens = <<>>
  /\ current = 0
  /\ pstack = <<>>
  /\ ast = [body |-> <<>>]
  /\ mode = "none"
  /\ cells = NewCells
  /\ pointer = 0
  /\ stack = <<>>
  /\ stdout = <<>>
  /\ stdin_read = <<>>
  /\ result = <<>>
  /\ log = <<>>
  /\ runs = 1
  /\ trace = <<>>
  /\ first = None

Init == InitWith(Sources)

\* The history of a step of a single run: an Output node that is executed
\* adds the value of the current cell to log.
Logged ==
  /\ log' = IF AtOutput /\ pc' = "run" THEN Append(log, cells[pointer]) ELSE log
  /\ UNCHANGED <<runs, trace, first>>

Next ==
  \/ Lex /\ Logged
  \/ Parse /\ Logged
  \/ ExpressionLoop /\ Logged
  \/ RunWeb /\ Logged
  \/ InterpretWeb /\ Logged
  \/ InterpretWebLoop /\ Logged
  \/ RunCli /\ Logged
  \/ Interpret /\ Logged
  \/ InterpretLoop /\ Logged

Spec == Init /\ [][Next]_vars

\* The "Hello World!" program of the end-to-end scenario alone.  Evaluation
\* is sequential code: a step that can be taken is taken.
InitHello == InitWith({HelloWorld})

SpecHello == InitHello /\ [][Next]_vars /\ WF_vars(Next)

\* Spec with the same scheduling stated.
FairSpec == Spec /\ WF_vars(Next)

\* The same program on longer sources over LoopAlphabet: nested and
\* terminated loops, and loops that emit a different char on every turn.
InitLoops == InitWith(LoopSources)

SpecLoops == InitLoops /\ [][Next]_vars

\* The same program on sources with output around and inside a loop.
InitOrder == InitWith(OrderSources)

SpecOrder == InitOrder /\ [][Next]_vars

\* Parser::new on a Vec<Token> written by hand, as tests::test_parser does:
\* tokens of any kind, with positions and lexemes that no source gives
\* them, closed by the EOF token of the test.
TokenTypes == {"IncrementPointer", "DecrementPointer", "IncrementValue",
               "DecrementValue", "Output", "Input", "LoopStart", "LoopEnd",
               "WhiteSpace", "Ignore", "EOF"}

HandTokens == [pos : {0, 5}, kind : TokenTypes, lexeme : {"+", NUL}]

HandBuilt ==
  {s \o <<[pos |-> 1, kind |-> "EOF", lexeme |-> NUL]>> :
     s \in UNION {[1..n -> HandTokens] : n \in 0..MaxTokens}}

InitParser ==
  /\ source = <<>>
  /\ overflow_checks \in BOOLEAN
  /\ pc = "parse"
  /\ err = ""
  /\ tokens \in HandBuilt
  /\ current = 0
  /\ pstack = <<>>
  /\ ast = [body |-> <<>>]
  /\ mode = "none"
  /\ cells = NewCells
  /\ pointer = 0
  /\ stack = <<>>
  /\ stdout = <<>>
  /\ stdin_read = <<>>
  /\ result = <<>>
  /\ log = <<>>
  /\ runs = 1
  /\ trace = <<>>
  /\ first = None

NextParser ==
  \/ Parse /\ Logged
  \/ ExpressionLoop /\ Logged

SpecParser == InitParser /\ [][NextParser]_vars

(***************************************************************************)
(* Properties                                                              *)
(***************************************************************************)
\* every char emitted so far, in the order of emission: the out strings of
\* the open calls from the outermost in, or what was written to stdout
RECURSIVE OutSoFar(_)
OutSoFar(frames) ==
  IF frames = <<>> THEN <<>> ELSE Head(frames).out \o OutSoFar(Tail(frames))

Emitted == IF mode = "web" THEN result \o OutSoFar(stack) ELSE stdout

\* the node the call on top of the stack executed last, if it has executed one
Executed(kind) ==
  /\ pc = "run"
  /\ stack /= <<>>
  /\ Top.fn \in {"interpret", "interpret_web"}
  /\ Top.nodes /= None
  /\ Top.i > 1
  /\ Unwrap(Top.nodes)[Top.i - 1].kind = kind

\* "Hello World!\n"
HelloOut == <<72, 101, 108, 108, 111, 32, 87, 111, 114, 108, 100, 33, 10>>

\* C1: run on the Hello World source, from a fresh all-zero tape with
\* pointer 0, ends without a panic and returns "Hello World!\n".
C1_HelloWorld == (mode = "web") ~> (pc = "done" /\ result = HelloOut)

C1_Witness ==
  /\ source = HelloWorld
  /\ mode = "web"
  /\ pc = "done"
  /\ result = HelloOut
  /\ pointer = 4

\* C2: a CellIncrement node sets the current cell to (v + 1) mod 256 and a
\* CellDecrement node sets it to (v + 255) mod 256, in both evaluators, and
\* neither ever panics.
C2_WrapNeverTraps ==
  [][/\ AtNode("CellIncrement") =>
          /\ pc' = "run"
          /\ cells' = [cells EXCEPT ![pointer] = (@ + 1) % 256]
     /\ AtNode("CellDecrement") =>
          /\ pc' = "run"
          /\ cells' = [cells EXCEPT ![pointer] = (@ + 255) % 256]]_vars

\* C3: in every state the pointer is an index of the tape, the tape keeps
\* its length, and no access has been out of bounds.
C3_PointerInBounds ==
  /\ pointer \in 0..(CellsLen(cells) - 1)
  /\ DOMAIN cells = 0..(TapeLen - 1)
  /\ err /= "index out of bounds"

\* the pointer has wrapped to the last cell inside a loop
C3_Witness ==
  /\ pc = "run"
  /\ pointer = TapeLen - 1
  /\ \E k \in 1..Len(stack) : stack[k].fn \in LoopFns

\* C4: with N cells, a PointerIncrement node sets the pointer to
\* (pointer + 1) mod N and a PointerDecrement node sets it to
\* (pointer + N - 1) mod N; neither changes a cell or the output.
C4_PointerWraps ==
  [][/\ AtNode("PointerIncrement") =>
          /\ pointer' = (pointer + 1) % CellsLen(cells)
          /\ cells' = cells
          /\ Emitted' = Emitted
          /\ pc' = "run"
     /\ AtNode("PointerDecrement") =>
          /\ pointer' = (pointer + CellsLen(cells) - 1) % CellsLen(cells)
          /\ cells' = cells
          /\ Emitted' = Emitted
          /\ pc' = "run"]_vars

\* a PointerDecrement took the pointer from 0 to the last cell and the
\* PointerIncrement after it took it back to 0
C4_Witness ==
  /\ Executed("PointerIncrement")
  /\ Top.i = 3
  /\ Unwrap(Top.nodes)[1].kind = "PointerDecrement"
  /\ Len(stack) = 2
  /\ pointer = 0

\* C5 as claimed: an Output node appends the cell's own value, whatever it
\* is, and leaves tape and pointer unchanged.
C5_OutputRaw ==
  [][AtNode("Output") =>
       /\ Emitted' = Append(Emitted, cells[pointer])
       /\ cells' = cells
       /\ pointer' = pointer]_vars

\* C5 amended: an Output node appends exactly one char, the cell's value if
\* it is not 0 and a newline (10) if it is 0, in both evaluators, and leaves
\* tape and pointer unchanged.
C5_OutputNewlineForZero ==
  [][AtNode("Output") =>
       /\ Emitted' = Append(Emitted, IF cells[pointer] = 0 THEN 10 ELSE cells[pointer])
       /\ cells' = cells
       /\ pointer' = pointer]_vars

\* an Output node was executed on a cell holding 0, and then one on a cell
\* holding a value other than 0
C5_Witness ==
  /\ Executed("Output")
  /\ cells[pointer] /= 0
  /\ Emitted = <<10, cells[pointer]>>

\* C6: a loop function on top of the stack returns at once when the cell
\* under the pointer is 0 and otherwise calls the evaluator on the whole
\* body from its first node; so whenever a loop function returns, which is
\* when execution moves to the node after the LoopStart node, the current
\* cell is 0.
C6_WhileLoop ==
  [][(pc = "run" /\ stack /= <<>> /\ Top.fn \in LoopFns) =>
       /\ pc' = "run"
       /\ cells' = cells
       /\ pointer' = pointer
       /\ Emitted' = Emitted
       /\ IF cells[pointer] = 0
          THEN /\ Len(stack') = Len(stack) - 1
               /\ stack'[Len(stack')].i = stack[Len(stack')].i + 1
               /\ cells'[pointer'] = 0
          ELSE /\ Len(stack') = Len(stack) + 1
               /\ SubSeq(stack', 1, Len(stack)) = stack
               /\ stack'[Len(stack')].nodes = Top.nodes
               /\ stack'[Len(stack')].i = 1]_vars

\* a loop entered on a nonzero cell was left with the pointer on another
\* cell, which holds 0
C6_Witness ==
  /\ Executed("LoopStart")
  /\ cells[0] /= 0
  /\ pointer /= 0
  /\ cells[pointer] = 0

\* C7: tokenize returns length(source) + 1 tokens, only the last of kind
\* EOF, and the lexemes of the tokens that are not EOF, in order, are the
\* source.
C7_TokenizeRoundTrip ==
  pc /= "lex" =>
    LET nonEof == SelectSeq(tokens, LAMBDA t : t.kind /= "EOF") IN
    /\ Len(tokens) = Len(source) + 1
    /\ \A i \in 1..Len(tokens) : (tokens[i].kind = "EOF") <=> (i = Len(tokens))
    /\ [i \in 1..Len(nonEof) |-> nonEof[i].lexeme] = source

C7_Witness ==
  /\ pc = "parse"
  /\ Len(source) = 3
  /\ tokens[1].lexeme = " "
  /\ tokens[2].lexeme = "a"
  /\ tokens[3].lexeme = "]"

\* the classification table of the claim
Classified(ch) ==
  CASE ch = ">" -> "IncrementPointer"
    [] ch = "<" -> "DecrementPointer"
    [] ch = "+" -> "IncrementValue"
    [] ch = "-" -> "DecrementValue"
    [] ch = "." -> "Output"
    [] ch = "," -> "Input"
    [] ch = "[" -> "LoopStart"
    [] ch = "]" -> "LoopEnd"
    [] ch = " " -> "WhiteSpace"
    [] OTHER    -> "Ignore"

\* C8: the token at index i has the kind the table gives the char at
\* index i, whatever the other chars are, and tokenize yields a token for
\* every char.
C8_Classification ==
  pc /= "lex" =>
    /\ Len(tokens) > Len(source)
    /\ \A i \in 1..Len(source) : tokens[i].kind = Classified(source[i])

C8_Witness ==
  /\ pc = "parse"
  /\ source = <<" ", "a", ",">>
  /\ tokens[1].kind = "WhiteSpace"
  /\ tokens[2].kind = "Ignore"
  /\ tokens[3].kind = "Input"

\* the number of loops open after the first i chars of src: `[` opens one,
\* `]` closes the innermost open one (a `]` with none open closes nothing)
RECURSIVE OpenLoops(_, _)
OpenLoops(src, i) ==
  IF i = 0 THEN 0
  ELSE LET d == OpenLoops(src, i - 1) IN
       IF src[i] = "[" THEN d + 1
       ELSE IF src[i] = "]" /\ d > 0 THEN d - 1
       ELSE d

\* src has a `[` with no matching `]`
Unterminated(src) == OpenLoops(src, Len(src)) > 0

\* the index of the outermost `[` of src that has no matching `]`
FirstUnterminated(src) ==
  CHOOSE k \in 1..Len(src) :
    /\ src[k] = "["
    /\ OpenLoops(src, k - 1) = 0
    /\ \A j \in k..Len(src) : OpenLoops(src, j) > 0

\* the tokens of the nodes of a tree, each node before its body
RECURSIVE NodeTokens(_)
NodeTokens(nodes) ==
  IF nodes = <<>> THEN <<>>
  ELSE LET n == Head(nodes) IN
       <<n.token>>
       \o (IF n.body = None THEN <<>> ELSE NodeTokens(Unwrap(n.body).body))
       \o NodeTokens(Tail(nodes))

\* the tokens from index k on that are neither EOF nor a `]` closing a loop
TokensFrom(k) ==
  LET idx == {j \in k..Len(source) : ~(source[j] = "]" /\ OpenLoops(source, j - 1) > 0)}
      Nth(m) == CHOOSE j \in idx : Cardinality({h \in idx : h < j}) = m - 1
  IN [m \in 1..Cardinality(idx) |-> tokens[Nth(m)]]

ParserPanics ==
  {"Unexpected token", "previous: index out of bounds", "peek: index out of bounds"}

\* C9: a source with an unterminated loop is parsed without a panic; the
\* closing advance() of a loop that meets EOF leaves the cursor where it is
\* and returns the LoopStart node; the node of the outermost unterminated
\* loop is the last node of the tree and holds, at every depth, every node
\* parsed from its bracket to the end of input; and the source `[` runs to
\* completion with empty output on an all-zero tape.
C9_UnterminatedLoop ==
  /\ [](Unterminated(source) =>
          /\ err \notin ParserPanics
          /\ pc \notin {"lex", "parse"} =>
               LET k == FirstUnterminated(source)
                   n == ast.body[Len(ast.body)]
               IN /\ current = Len(source)
                  /\ pstack = <<>>
                  /\ n.kind = "LoopStart"
                  /\ n.token = tokens[k]
                  /\ n.body /= None
                  /\ NodeTokens(<<n>>) = TokensFrom(k))
  /\ [][(pc = "parse" /\ pstack /= <<>> /\ IsAtEnd) =>
          /\ current' = current
          /\ pc' = "parse"
          /\ Len(pstack') = Len(pstack) - 1]_vars
  /\ (source = <<"[">> /\ pc = "parsed")
       ~> (pc = "done" /\ Emitted = <<>> /\ cells = NewCells /\ pointer = 0)

\* the tree of `[[a`: two loops closed by EOF, the inner one holding the
\* node of `a`
C9_Witness ==
  /\ pc = "parsed"
  /\ source = <<"[", "[", "a">>
  /\ current = 3
  /\ Len(ast.body) = 1
  /\ Len(Unwrap(ast.body[1].body).body) = 1
  /\ Unwrap(Unwrap(ast.body[1].body).body[1].body).body[1].kind = "Ignore"

\* what parse() has left to do: it falls with every step
ParseMeasure == 2 * (Len(tokens) - current) + Len(pstack)

\* C10: on the tokens of tokenize, parse never panics (no Unexpected token,
\* no previous() at cursor 0, no peek() past the end), the cursor never
\* passes the EOF token, every step of parse brings it nearer its end, and
\* parse ends with the cursor on the EOF token.
C10_ParseTotal ==
  /\ [](/\ err \notin ParserPanics
        /\ pc /= "lex" =>
             /\ current <= Len(tokens) - 1
             /\ tokens[Len(tokens)].kind = "EOF"
        /\ pc \notin {"lex", "parse"} =>
             /\ current = Len(tokens) - 1
             /\ pstack = <<>>)
  /\ [][pc = "parse" =>
          \/ pc' = "parsed"
          \/ pc' = "parse" /\ ParseMeasure' < ParseMeasure /\ current' >= 1]_vars

C10_Witness ==
  /\ pc = "parsed"
  /\ source = <<"]", "[", "+">>
  /\ current = 3
  /\ Len(ast.body) = 2

\* every `[` of src has its `]` and every `]` closes a `[`
WellBracketed(src) ==
  /\ OpenLoops(src, Len(src)) = 0
  /\ \A j \in 1..Len(src) : src[j] = "]" => OpenLoops(src, j - 1) > 0

\* the index of the `]` matching the `[` at index k
Matching(src, k) ==
  CHOOSE j \in (k + 1)..Len(src) :
    /\ OpenLoops(src, j) = OpenLoops(src, k - 1)
    /\ \A h \in k..(j - 1) : OpenLoops(src, h) > OpenLoops(src, k - 1)

\* every node of a tree, each node before the nodes of its body
RECURSIVE AllNodes(_)
AllNodes(nodes) ==
  IF nodes = <<>> THEN <<>>
  ELSE LET n == Head(nodes) IN
       <<n>>
       \o (IF n.body = None THEN <<>> ELSE AllNodes(Unwrap(n.body).body))
       \o AllNodes(Tail(nodes))

\* the nodes flattened back to lexemes, a loop as `[`, its body, `]`
RECURSIVE Lexemes(_)
Lexemes(nodes) ==
  IF nodes = <<>> THEN <<>>
  ELSE LET n == Head(nodes) IN
       (IF n.body = None THEN <<n.token.lexeme>>
        ELSE <<"[">> \o Lexemes(Unwrap(n.body).body) \o <<"]">>)
       \o Lexemes(Tail(nodes))

\* C11: in the tree of a well-bracketed source every LoopStart node, at
\* every depth, has a body whose lexemes, nested loops wrapped in brackets
\* again, between one pair of brackets are the source from the node's `[`
\* to the matching `]`; and no node is a LoopEnd node.
C11_LoopBodyRoundTrip ==
  (pc \notin {"lex", "parse"} /\ WellBracketed(source)) =>
    LET all == AllNodes(ast.body) IN
    \A i \in 1..Len(all) :
      /\ all[i].kind /= "LoopEnd"
      /\ all[i].kind = "LoopStart" =>
           /\ all[i].body /= None
           /\ <<"[">> \o Lexemes(Unwrap(all[i].body).body) \o <<"]">>
                = SubSeq(source, all[i].token.pos, Matching(source, all[i].token.pos))

\* the tree of `[[+]]`: a loop whose body is a loop whose body is one node
C11_Witness ==
  /\ pc = "parsed"
  /\ source = <<"[", "[", "+", "]", "]">>
  /\ Len(ast.body) = 1
  /\ Len(AllNodes(ast.body)) = 3
  /\ Lexemes(ast.body) = source

\* the UTF-8 bytes of a char below U+0800
Utf8(c) == IF c < 128 THEN <<c>> ELSE <<192 + (c \div 64), 128 + (c % 64)>>

\* the bytes of the lines read, in the order standard input held them
RECURSIVE BytesOf(_)
BytesOf(line) ==
  IF line = <<>> THEN <<>> ELSE Utf8(Head(line)) \o BytesOf(Tail(line))

RECURSIVE BytesRead(_)
BytesRead(lines) ==
  IF lines = <<>> THEN <<>> ELSE BytesOf(Head(lines)) \o BytesRead(Tail(lines))

\* C12: an Input node executed by interpret consumes one byte of the input
\* and stores it in the current cell, so the k-th Input node executed stores
\* the k-th byte of the input.  (Each Input node that finds input appends
\* one line to stdin_read, so k is its length.)
C12_InputOneByte ==
  [][(mode = "cli" /\ AtNode("Input") /\ pc' = "run") =>
       LET k == Len(stdin_read') IN
       /\ k = Len(stdin_read) + 1
       /\ cells'[pointer] = BytesRead(stdin_read')[k]]_vars

\* C13: run reads no input: while interpret_web evaluates, nothing is read
\* from standard input, and an Input node is a step that is always possible,
\* does not end the run, and leaves the tape, the pointer and the output as
\* they were.
C13_WebInputNoOp ==
  [][/\ mode' = "web" => stdin_read' = <<>>
     /\ (mode = "web" /\ AtNode("Input")) =>
          /\ ENABLED InterpretWeb
          /\ pc' = "run"
          /\ cells' = cells
          /\ pointer' = pointer
          /\ Emitted' = Emitted]_vars

\* `+,` run by interpret_web: the Input node was executed on a cell holding 1
C13_Witness ==
  /\ mode = "web"
  /\ Executed("Input")
  /\ cells[pointer] = 1
  /\ stdin_read = <<>>

(***************************************************************************)
(* Two runs                                                                *)
(***************************************************************************)
\* a node of the match other than a LoopStart is about to be executed
AtStatement == \E kind \in {"Ignore", "WhiteSpace", "LoopEnd", "CellIncrement",
                            "CellDecrement", "PointerIncrement", "PointerDecrement",
                            "Output", "Input"} : AtNode(kind)

\* The caller, after a run has returned or panicked, starts another one on
\* the same source: Lexer::new and Parser::new build new values, the output
\* and the input of the new run are observed from its start, and the memory
\* of the Interpreter of the run before is left as that run left it.
RunAgain ==
  /\ pc \in {"done", "panic"}
  /\ runs = 1
  /\ runs' = 2
  /\ first' = Some([mode |-> mode, trace |-> trace, pc |-> pc, err |-> err,
                    result |-> result, stdout |-> stdout])
  /\ trace' = <<>>
  /\ log' = <<>>
  /\ pc' = "lex"
  /\ err' = ""
  /\ tokens' = <<>>
  /\ current' = 0
  /\ pstack' = <<>>
  /\ ast' = [body |-> <<>>]
  /\ stdout' = <<>>
  /\ stdin_read' = <<>>
  /\ result' = <<>>
  /\ UNCHANGED <<source, overflow_checks, mode, cells, pointer, stack>>

\* The history of a step of one of two runs: Logged, and a node that is
\* executed adds the tape, the pointer and the output after it to trace.
Traced ==
  /\ AtStatement => Len(trace) < MaxTrace
  /\ log' = IF AtOutput /\ pc' = "run" THEN Append(log, cells[pointer]) ELSE log
  /\ trace' = IF AtStatement /\ pc' = "run"
              THEN Append(trace, <<cells', pointer', Emitted'>>) ELSE trace
  /\ UNCHANGED <<runs, first>>

NextTwice ==
  \/ Lex /\ Traced
  \/ Parse /\ Traced
  \/ ExpressionLoop /\ Traced
  \/ RunWeb /\ Traced
  \/ InterpretWeb /\ Traced
  \/ InterpretWebLoop /\ Traced
  \/ RunCli /\ Traced
  \/ Interpret /\ Traced
  \/ InterpretLoop /\ Traced
  \/ RunAgain

InitTwice == InitWith(TwiceSources)

SpecTwice == InitTwice /\ [][NextTwice]_vars

\* the run in progress has gone, so far, through the states the run before
\* went through, and if it is over it ended as the run before did
SameRun ==
  LET f == Unwrap(first) IN
  /\ Len(trace) <= Len(f.trace)
  /\ trace = SubSeq(f.trace, 1, Len(trace))
  /\ pc \in {"done", "panic"} =>
       /\ trace = f.trace
       /\ pc = f.pc
       /\ err = f.err

\* C14: a second call of run on the same source steps through the (tape,
\* pointer, output) states of the first call and returns the same string,
\* whatever the first call left in memory.
C14_Deterministic ==
  (runs = 2 /\ mode = "web" /\ Unwrap(first).mode = "web") =>
    /\ SameRun
    /\ pc = "done" => result = Unwrap(first).result

\* `+.` run twice by run: the first run left 1 in cell 0, the second
\* returned the char 1 again
C14_Witness ==
  /\ runs = 2
  /\ mode = "web"
  /\ Unwrap(first).mode = "web"
  /\ pc = "done"
  /\ Len(trace) = 2
  /\ result = <<1>>
  /\ Unwrap(first).result = <<1>>

\* the chars of a source that are instructions other than `]`
Effective == {"+", "-", "<", ">", ".", ",", "["}

\* C15: a WhiteSpace, Ignore or LoopEnd node, executed by either evaluator,
\* is a step that leaves the tape, the pointer and the output unchanged; and
\* a run of a source with none of the chars + - < > . , [ ends with no
\* output, an all-zero tape and the pointer at 0.
C15_NoOps ==
  [][/\ (AtNode("WhiteSpace") \/ AtNode("Ignore") \/ AtNode("LoopEnd")) =>
          /\ pc' = "run"
          /\ cells' = cells
          /\ pointer' = pointer
          /\ Emitted' = Emitted
     /\ (pc' \in {"done", "panic"} /\ \A i \in 1..Len(source) : source[i] \notin Effective) =>
          /\ pc' = "done"
          /\ Emitted' = <<>>
          /\ cells' = NewCells
          /\ pointer' = 0]_vars

\* a stray `]`, a blank and a letter were executed by interpret
C15_Witness ==
  /\ pc = "done"
  /\ mode = "cli"
  /\ source = <<"]", " ", "a">>
  /\ Len(ast.body) = 3
  /\ Emitted = <<>>
  /\ cells = NewCells

\* the chars emitted for the cell values vs: a newline for a zero cell
Chars(vs) == [i \in 1..Len(vs) |-> IF vs[i] = 0 THEN 10 ELSE vs[i]]

\* C16: the output of interpret_web is in execution order: at every moment
\* what was emitted so far is, char by char, what the Output nodes executed
\* so far emitted, in the order of their execution, and the string run
\* returns is that sequence; so what a loop emits stands after what was
\* emitted before it and before what is emitted after it.
C16_OutputOrder ==
  mode = "web" =>
    /\ Emitted = Chars(log)
    /\ pc = "done" => result = Chars(log)

\* `.+[.-].`: a newline before the loop, the char 1 in it, a newline after it
C16_Witness ==
  /\ mode = "web"
  /\ pc = "done"
  /\ source = <<".", "+", "[", ".", "-", "]", ".">>
  /\ log = <<0, 1, 0>>
  /\ result = <<10, 1, 10>>

\* the node kind the claim gives for a token kind
C17_KindFor(kind) ==
  CASE kind = "IncrementValue"   -> "CellIncrement"
    [] kind = "DecrementValue"   -> "CellDecrement"
    [] kind = "IncrementPointer" -> "PointerIncrement"
    [] kind = "DecrementPointer" -> "PointerDecrement"
    [] OTHER                     -> kind

\* the tokens end in an EOF token and none of them is a LoopStart token
NoLoopStart ==
  /\ tokens /= <<>>
  /\ tokens[Len(tokens)].kind = "EOF"
  /\ \A k \in 1..Len(tokens) : tokens[k].kind /= "LoopStart"

\* the tokens that are not EOF tokens, in their order
NonEOF == SelectSeq(tokens, LAMBDA t : t.kind /= "EOF")

\* the nodes are, in order, the tokens ts: each node carries its token as it
\* was given, has the kind of the token's kind and no body
NodesOf(nodes, ts) ==
  /\ Len(nodes) = Len(ts)
  /\ \A k \in 1..Len(nodes) :
       /\ nodes[k].token = ts[k]
       /\ nodes[k].kind = C17_KindFor(ts[k].kind)
       /\ nodes[k].body = None

\* C17 as stated: of a token sequence ending in EOF with no LoopStart token,
\* parse returns one node per non-EOF token, in order, with the token
\* unchanged and the kind of the token's kind.
C17_OneNodePerNonEOF ==
  (pc = "parsed" /\ NoLoopStart) => NodesOf(ast.body, NonEOF)

\* C17: of a token sequence with no LoopStart token whose one EOF token is
\* its last, parse does not panic and returns one node per token before the
\* EOF, in order, each carrying its token as given (position, kind and
\* lexeme) and the kind of the token's kind.
C17_OneNodePerTokenBeforeEOF ==
  (NoLoopStart /\ \A k \in 1..(Len(tokens) - 1) : tokens[k].kind /= "EOF") =>
    /\ pc \in {"parse", "parsed"}
    /\ NodesOf(ast.body, SubSeq(tokens, 1, current))
    /\ pc = "parsed" => NodesOf(ast.body, NonEOF)

\* two hand-built tokens with positions and a lexeme no source gives them
C17_Witness ==
  /\ pc = "parsed"
  /\ tokens = << [pos |-> 5, kind |-> "IncrementValue", lexeme |-> "+"],
                 [pos |-> 0, kind |-> "LoopEnd", lexeme |-> NUL],
                 [pos |-> 1, kind |-> "EOF", lexeme |-> NUL] >>
  /\ Len(ast.body) = 2
  /\ ast.body[1].token.pos = 5
  /\ ast.body[2].kind = "LoopEnd"

\* C18: in the tree parse returns, at every depth, a node has a body if and
\* only if its kind is LoopStart.
C18_BodyIffLoopStart ==
  pc \notin {"lex", "parse"} =>
    LET all == AllNodes(ast.body) IN
    \A i \in 1..Len(all) : (all[i].body /= None) <=> (all[i].kind = "LoopStart")

\* the tree of `[[]`: a loop whose body is one loop with a present, empty body
C18_Witness ==
  /\ pc = "parsed"
  /\ source = <<"[", "[", "]">>
  /\ Len(AllNodes(ast.body)) = 2
  /\ AllNodes(ast.body)[2].kind = "LoopStart"
  /\ AllNodes(ast.body)[2].body = Some([body |-> <<>>])

\* C19: the k-th token of tokenize has position k, and the last token is
\* the EOF token, with the null character as lexeme and position
\* Len(source) + 1.
C19_Positions ==
  pc /= "lex" =>
    /\ tokens /= <<>>
    /\ \A k \in 1..Len(tokens) : tokens[k].pos = k
    /\ \A k \in 1..(Len(tokens) - 1) : tokens[k].pos < tokens[k + 1].pos
    /\ tokens[Len(tokens)].kind = "EOF"
    /\ tokens[Len(tokens)].lexeme = NUL
    /\ tokens[Len(tokens)].pos = Len(source) + 1

\* the tokens of `+ a`: positions 1, 2, 3 and the EOF token at 4
C19_Witness ==
  /\ pc = "parse"
  /\ source = <<"+", " ", "a">>
  /\ [k \in 1..Len(tokens) |-> tokens[k].pos] = <<1, 2, 3, 4>>
  /\ tokens[4].lexeme = NUL

\* C20: on a source with no Input instruction interpret and interpret_web
\* agree: the one run after the other on the same source goes through the
\* same (tape, pointer, output) states, ends as the other ended (returned or
\* panicked, with the same message), and what interpret printed is the
\* string interpret_web returned.
C20_EvaluatorsAgree ==
  (/\ runs = 2
   /\ {mode, Unwrap(first).mode} = {"cli", "web"}
   /\ \A i \in 1..Len(source) : source[i] /= ",") =>
    /\ SameRun
    /\ pc = "done" =>
         IF mode = "cli" THEN stdout = Unwrap(first).result
                         ELSE result = Unwrap(first).stdout

\* `+[-.].` by interpret_web and then by interpret: a newline for the zero
\* cell in the loop and one after it, returned and printed
C20_Witness ==
  /\ runs = 2
  /\ mode = "cli"
  /\ Unwrap(first).mode = "web"
  /\ pc = "done"
  /\ source = <<"+", "[", "-", ".", "]", ".">>
  /\ stdout = <<10, 10>>
  /\ Unwrap(first).result = <<10, 10>>
  /\ Len(trace) = 4

====
